---- MODULE Spec2Model ----
(***************************************************************************)
(* Model of generateHuntSequences (scavenger_hunt_script.js) and of the    *)
(* helpers it calls: shuffleArray, createAlternatingSequence,              *)
(* followsAlternatingTypes, violatesConstraints and recordConstraints.     *)
(*                                                                         *)
(* A candidate ordering is a sequence of indices into randomizableClues:   *)
(* the script moves object references around, so two clues with equal      *)
(* fields stay two different entries.  Math.random() is a nondeterministic *)
(* choice among the values Math.floor can produce from it.                 *)
(***************************************************************************)
EXTENDS Integers, Sequences, FiniteSets, Bags, TLC

\* Bounds of the explored inputs.
MaxClues == 4
MaxGroups == 3

\* const maxAttempts = 100
maxAttempts == 100

(***************************************************************************)
(* Clue records as readCluesFromSheet produces them.  clueType is null     *)
(* when column C is missing or empty, otherwise the trimmed cell text.     *)
(***************************************************************************)
Null == "<null>"

Clue(q, a, t) == [question |-> q, answer |-> a, clueType |-> t]

\* The clues the explored pools are made of.  Two question texts collide
\* once joined with "|" ("a" + "a|a" and "a|a" + "a"), two clues share the
\* question text "b", and the categories cover both spellings of a tag,
\* a tag that is neither person nor place, and no tag at all.
ClueUniverse ==
    << Clue("a", "Piano", "Place"),
       Clue("a|a", "Clock", "place"),
       Clue("p", "Kevin", "Person"),
       Clue("b", "Desk", Null),
       Clue("b", "Zoo", "Animal") >>

\* The clues tried in the last row of the sheet.
FinalClues ==
    { Clue("f", "Kevin", "Person") }

\* The first three rows createSampleClues writes, the pool of the README's
\* example: two Place clues and the final clue.
HuntExample ==
    << Clue("What has keys but can't open locks?", "Piano", "Place"),
       Clue("What has a face and two hands but no arms or legs?", "Clock", "Place"),
       Clue("Who created this scavenger hunt?", "Kevin", "Person") >>

\* Non-decreasing sequences of universe positions, of length n.
RECURSIVE SortedPicks(_)
SortedPicks(n) ==
    IF n = 0 THEN { <<>> }
    ELSE { Append(s, x) : s \in SortedPicks(n - 1), x \in 1..Len(ClueUniverse) }
         \ { t \in { Append(s, x) : s \in SortedPicks(n - 1), x \in 1..Len(ClueUniverse) } :
                 n > 1 /\ t[n - 1] > t[n] }

\* The pools handed to generateHuntSequences: no row at all, or up to
\* MaxClues rows, the last one a final clue.  The rows before it are listed
\* in universe order (with repetition): the script only ever uses them
\* shuffled, or filtered by category and then shuffled.  The README's
\* example pool is one more of them.
CluePools ==
    { <<>>, HuntExample } \cup
    { [i \in 1..Len(picks) |-> ClueUniverse[picks[i]]] \o << f >> :
          picks \in UNION { SortedPicks(n) : n \in 0..(MaxClues - 1) },
          f \in FinalClues }

\* String.prototype.toLowerCase on the category strings in use.
toLowerCase(s) ==
    CASE s = "Place" -> "place"
      [] s = "Person" -> "person"
      [] s = "Animal" -> "animal"
      [] OTHER -> s

\* JavaScript truthiness of a clueType value (null and "" are falsy).
Truthy(t) == t /= Null /\ t /= ""

\* c.clueType && c.clueType.toLowerCase() === 'person'
isPerson(c) == Truthy(c.clueType) /\ toLowerCase(c.clueType) = "person"

\* c.clueType && c.clueType.toLowerCase() === 'place'
isPlace(c) == Truthy(c.clueType) /\ toLowerCase(c.clueType) = "place"

\* c.clueType && ['person', 'place'].includes(c.clueType.toLowerCase())
isTyped(c) == Truthy(c.clueType) /\ toLowerCase(c.clueType) \in {"person", "place"}

\* !c.clueType || !['person', 'place'].includes(c.clueType.toLowerCase())
isOther(c) == ~Truthy(c.clueType) \/ toLowerCase(c.clueType) \notin {"person", "place"}

(***************************************************************************)
(* shuffleArray: Fisher-Yates, for i = length-1 down to 1 swap array[i]    *)
(* with array[j], j = Math.floor(Math.random() * (i + 1)).  Positions are  *)
(* 1-based here, so rnd[i] is j + 1 and ranges over 1..i.                  *)
(***************************************************************************)
Swap(array, i, j) == [array EXCEPT ![i] = array[j], ![j] = array[i]]

RandomChoices(n) == { rnd \in [2..n -> 1..n] : \A i \in 2..n : rnd[i] <= i }

RECURSIVE shuffleFrom(_, _, _)
shuffleFrom(array, i, rnd) ==
    IF i <= 1 THEN array
    ELSE shuffleFrom(Swap(array, i, rnd[i]), i - 1, rnd)

\* Every array one call of shuffleArray can leave behind.
shuffleArray(array) ==
    { shuffleFrom(array, Len(array), rnd) : rnd \in RandomChoices(Len(array)) }

\* [...randomizableClues] as the sequence of its own positions.
Positions(rc) == [i \in 1..Len(rc) |-> i]

\* The three clues.filter(...) calls, kept as positions of the pool.
personCluesOf(rc) == SelectSeq(Positions(rc), LAMBDA i : isPerson(rc[i]))

placeCluesOf(rc) == SelectSeq(Positions(rc), LAMBDA i : isPlace(rc[i]))

otherCluesOf(rc) == SelectSeq(Positions(rc), LAMBDA i : isOther(rc[i]))

(***************************************************************************)
(* createAlternatingSequence                                               *)
(***************************************************************************)
\* The two early "return null" exits.
alternatingIsNull(rc) ==
    \/ Len(placeCluesOf(rc)) = 0
    \/ Len(personCluesOf(rc)) + Len(placeCluesOf(rc)) < 2

\* The interleaving loop: personIdx and placeIdx count the clues consumed.
RECURSIVE interleave(_, _, _, _, _, _, _)
interleave(personClues, placeClues, result, personIdx, placeIdx, currentType, i) ==
    IF i >= Len(personClues) + Len(placeClues) THEN result
    ELSE IF currentType = "place" /\ placeIdx < Len(placeClues)
         THEN interleave(personClues, placeClues, Append(result, placeClues[placeIdx + 1]),
                         personIdx, placeIdx + 1, "person", i + 1)
    ELSE IF currentType = "person" /\ personIdx < Len(personClues)
         THEN interleave(personClues, placeClues, Append(result, personClues[personIdx + 1]),
                         personIdx + 1, placeIdx, "place", i + 1)
    ELSE IF placeIdx < Len(placeClues)
         THEN interleave(personClues, placeClues, Append(result, placeClues[placeIdx + 1]),
                         personIdx, placeIdx + 1, "person", i + 1)
    ELSE IF personIdx < Len(personClues)
         THEN interleave(personClues, placeClues, Append(result, personClues[personIdx + 1]),
                         personIdx + 1, placeIdx, "place", i + 1)
    ELSE interleave(personClues, placeClues, result, personIdx, placeIdx, currentType, i + 1)

\* Smallest element of a non-empty set of integers.
Min(S) == CHOOSE x \in S : \A y \in S : x <= y

\* "Try to make second-to-last clue a Place": the loop runs i over
\* 0 .. result.length-3, that is over the 1-based positions 1 .. n-2, and
\* swaps the first Place it meets with the second-to-last entry.
preferPlaceSecondToLast(rc, result) ==
    LET n == Len(result)
        secondToLastIdx == n - 1
    IN  IF n >= 2 /\ isPerson(rc[result[secondToLastIdx]])
        THEN LET found == { i \in 1..(n - 2) : isPlace(rc[result[i]]) }
             IN  IF found = {} THEN result
                 ELSE Swap(result, Min(found), secondToLastIdx)
        ELSE result

\* result.splice(pos, 1, clue): overwrites the entry at pos.
spliceOverwrite(result, pos, clue) ==
    SubSeq(result, 1, pos) \o <<clue>> \o SubSeq(result, pos + 2, Len(result))

\* result.splice(pos, 0, clue)
splice(result, pos, clue) ==
    SubSeq(result, 1, pos) \o <<clue>> \o SubSeq(result, pos + 1, Len(result))

\* for (const clue of otherClues): pos = floor(random * result.length) + 1
RECURSIVE insertOthers(_, _)
insertOthers(result, otherClues) ==
    IF otherClues = <<>> THEN { result }
    ELSE UNION { insertOthers(splice(result, pos, Head(otherClues)), Tail(otherClues)) :
                 pos \in 1..Len(result) }

\* Every ordering createAlternatingSequence can return when it does not
\* return null.
createAlternatingSequence(rc) ==
    UNION { insertOthers(
                preferPlaceSecondToLast(rc,
                    interleave(personClues, placeClues, <<>>, 0, 0, "place", 0)),
                otherClues) :
            personClues \in shuffleArray(personCluesOf(rc)),
            placeClues \in shuffleArray(placeCluesOf(rc)),
            otherClues \in shuffleArray(otherCluesOf(rc)) }

(***************************************************************************)
(* The validator and the ledger.  shuffledClues is a sequence of clue      *)
(* records here.                                                           *)
(***************************************************************************)
\* `${x.question}|${y.question}`
pairKey(x, y) == x.question \o "|" \o y.question

\* followsAlternatingTypes with the threshold compared strictly.
followsAlternatingTypesStrict(shuffledClues) ==
    LET typedClues == SelectSeq(shuffledClues, isTyped)
        violations == Cardinality({ i \in 1..(Len(shuffledClues) - 1) :
                          /\ isTyped(shuffledClues[i])
                          /\ isTyped(shuffledClues[i + 1])
                          /\ toLowerCase(shuffledClues[i].clueType)
                               = toLowerCase(shuffledClues[i + 1].clueType) })
    IN  IF Len(typedClues) < 2 THEN TRUE
        ELSE violations < Len(shuffledClues) \div 2

\* followsAlternatingTypes with the threshold at the number of adjacent pairs.
followsAlternatingTypesAllPairs(shuffledClues) ==
    LET typedClues == SelectSeq(shuffledClues, isTyped)
        violations == Cardinality({ i \in 1..(Len(shuffledClues) - 1) :
                          /\ isTyped(shuffledClues[i])
                          /\ isTyped(shuffledClues[i + 1])
                          /\ toLowerCase(shuffledClues[i].clueType)
                               = toLowerCase(shuffledClues[i + 1].clueType) })
    IN  IF Len(typedClues) < 2 THEN TRUE
        ELSE violations <= Len(shuffledClues) - 1

followsAlternatingTypes(shuffledClues) ==
    LET typedClues == SelectSeq(shuffledClues, isTyped)
        violations == Cardinality({ i \in 1..(Len(shuffledClues) - 1) :
                          /\ Truthy(shuffledClues[i].clueType)
                          /\ Truthy(shuffledClues[i + 1].clueType)
                          /\ toLowerCase(shuffledClues[i].clueType) \in {"person", "place"}
                          /\ toLowerCase(shuffledClues[i + 1].clueType) \in {"person", "place"}
                          /\ toLowerCase(shuffledClues[i].clueType)
                               = toLowerCase(shuffledClues[i + 1].clueType) })
    IN  IF Len(typedClues) < 2 THEN TRUE
        ELSE violations <= Len(shuffledClues) \div 2

\* violatesConstraints without Rule 1 (first clue already used).
violatesConstraintsNoRule1(shuffledClues, usedFirst, usedPairs) ==
    \/ Truthy(shuffledClues[1].clueType) /\ toLowerCase(shuffledClues[1].clueType) /= "place"
    \/ \E i \in 1..(Len(shuffledClues) - 1) :
           pairKey(shuffledClues[i], shuffledClues[i + 1]) \in usedPairs
    \/ ~followsAlternatingTypes(shuffledClues)

\* violatesConstraints without Rule 1b (first clue must be a Place).
violatesConstraintsNoRule1b(shuffledClues, usedFirst, usedPairs) ==
    \/ shuffledClues[1].question \in usedFirst
    \/ \E i \in 1..(Len(shuffledClues) - 1) :
           pairKey(shuffledClues[i], shuffledClues[i + 1]) \in usedPairs
    \/ ~followsAlternatingTypes(shuffledClues)

violatesConstraints(shuffledClues, usedFirst, usedPairs) ==
    \/ shuffledClues[1].question \in usedFirst
    \/ Truthy(shuffledClues[1].clueType) /\ toLowerCase(shuffledClues[1].clueType) /= "place"
    \/ \E i \in 1..(Len(shuffledClues) - 1) :
           pairKey(shuffledClues[i], shuffledClues[i + 1]) \in usedPairs
    \/ ~followsAlternatingTypes(shuffledClues)

\* recordConstraints that forgets the first clue.
recordFirstClueNothing(shuffledClues, usedFirst) == usedFirst

\* recordConstraints, first half: usedFirstClues.add(...)
recordFirstClue(shuffledClues, usedFirst) ==
    usedFirst \cup { shuffledClues[1].question }

\* recordConstraints that forgets the consecutive pairs.
recordPairsNothing(shuffledClues, usedPairs) == usedPairs

\* recordConstraints, second half: usedConsecutivePairs.add(pair) for each i
recordPairs(shuffledClues, usedPairs) ==
    usedPairs \cup { pairKey(shuffledClues[i], shuffledClues[i + 1]) :
                     i \in 1..(Len(shuffledClues) - 1) }

(***************************************************************************)
(* The step list built for a committed ordering.                           *)
(***************************************************************************)
\* `Group ${groupNum} Clue ${n}. ${question}`
nextClueLabel(g, n, question) ==
    "Group " \o ToString(g) \o " Clue " \o ToString(n) \o ". " \o question

\* `${shuffledClues.length + 2}. The End`
endLabel(n) == ToString(n) \o ". The End"

\* `Hide this at/with: ${clue.answer}`
locationOf(clue) == "Hide this at/with: " \o clue.answer

\* candidateSequence without the push of the final clue.
candidateSequenceNoFinal(shuffledClues, lastClue, g) ==
    LET n == Len(shuffledClues)
    IN  [i \in 1..n |->
            [clueNumber |-> i,
             question   |-> shuffledClues[i].question,
             location   |-> locationOf(shuffledClues[i]),
             nextClue   |-> IF i < n
                            THEN nextClueLabel(g, i + 1, shuffledClues[i + 1].question)
                            ELSE nextClueLabel(g, i + 1, lastClue.question)]]

\* candidateSequence whose labels quote the clue itself instead of the next.
candidateSequenceOwnQuestion(shuffledClues, lastClue, g) ==
    LET n == Len(shuffledClues)
    IN  [i \in 1..n |->
            [clueNumber |-> i,
             question   |-> shuffledClues[i].question,
             location   |-> locationOf(shuffledClues[i]),
             nextClue   |-> nextClueLabel(g, i + 1, shuffledClues[i].question)]]
        \o << [clueNumber |-> n + 1,
               question   |-> lastClue.question,
               location   |-> locationOf(lastClue),
               nextClue   |-> endLabel(n + 2)] >>

candidateSequence(shuffledClues, lastClue, g) ==
    LET n == Len(shuffledClues)
    IN  [i \in 1..n |->
            [clueNumber |-> i,
             question   |-> shuffledClues[i].question,
             location   |-> locationOf(shuffledClues[i]),
             nextClue   |-> IF i < n
                            THEN nextClueLabel(g, i + 1, shuffledClues[i + 1].question)
                            ELSE nextClueLabel(g, i + 1, lastClue.question)]]
        \o << [clueNumber |-> n + 1,
               question   |-> lastClue.question,
               location   |-> locationOf(lastClue),
               nextClue   |-> endLabel(n + 2)] >>

(***************************************************************************)
(* generateHuntSequences(clues, numGroups)                                 *)
(***************************************************************************)
VARIABLES
    clues,                 \* argument: the clue pool
    numGroups,             \* argument: the number of groups
    pc,                    \* "entry", "loop", "returned" or "thrown"
    groupNum,              \* the for loop's counter
    attempts,              \* the while loop's counter of the current group
    usedFirstClues,        \* the ledger: questions used as an opening clue
    usedConsecutivePairs,  \* the ledger: "q1|q2" keys of recorded pairs
    allSequences,          \* group number -> step list
    committed,             \* group number -> the shuffledClues it was built from
    returnValue,           \* the mapping handed to the caller, once returned
    thrown,                \* the message of the Error thrown, once thrown
    probe,                 \* a single call of one of the helpers, see ProbeSpec
    huntPc,                \* the position in generateScavengerHunt, see HuntSpec
    sheets,                \* the names of the sheets of the spreadsheet
    alerts,                \* the alerts generateScavengerHunt has shown
    sheetNum               \* the counter of the loop creating the group sheets

vars == << clues, numGroups, pc, groupNum, attempts, usedFirstClues,
           usedConsecutivePairs, allSequences, committed, returnValue, thrown,
           probe, huntPc, sheets, alerts, sheetNum >>

\* The state of generateScavengerHunt around the call of generateHuntSequences.
huntVars == << huntPc, sheets, alerts, sheetNum >>

\* No helper called on its own.
NoProbe == [fn |-> "none"]

\* An object without keys.
EmptyMap == [g \in {} |-> <<>>]

\* clues[clues.length - 1]
finalClue == clues[Len(clues)]

\* clues.slice(0, -1)
randomizableClues == SubSeq(clues, 1, Len(clues) - 1)

\* The clue records an ordering of positions stands for.
CluesOf(order) == [i \in 1..Len(order) |-> randomizableClues[order[i]]]

Init ==
    /\ clues \in CluePools
    /\ numGroups \in 1..MaxGroups
    /\ pc = "entry"
    /\ groupNum = 1
    /\ attempts = 0
    /\ usedFirstClues = {}
    /\ usedConsecutivePairs = {}
    /\ allSequences = EmptyMap
    /\ committed = EmptyMap
    /\ returnValue = EmptyMap
    /\ thrown = ""
    /\ probe = NoProbe
    /\ huntPc = "idle"
    /\ sheets = {}
    /\ alerts = << >>
    /\ sheetNum = 1

\* The guard with the bound off by one: if (clues.length < 1)
insufficientCluesBelowOne(c) == Len(c) < 1

\* if (clues.length < 2)
insufficientClues(c) == Len(c) < 2

\* throw new Error('Need at least 2 clues to generate a hunt')
ThrowInsufficient ==
    /\ pc = "entry"
    /\ insufficientClues(clues)
    /\ pc' = "thrown"
    /\ thrown' = "Need at least 2 clues to generate a hunt"
    /\ UNCHANGED << huntVars, probe, clues, numGroups, groupNum, attempts, usedFirstClues,
                    usedConsecutivePairs, allSequences, committed, returnValue >>

\* The declarations before the for loop.
Enter ==
    /\ pc = "entry"
    /\ ~insufficientClues(clues)
    /\ pc' = "loop"
    /\ groupNum' = 1
    /\ attempts' = 0
    /\ usedFirstClues' = {}
    /\ usedConsecutivePairs' = {}
    /\ allSequences' = EmptyMap
    /\ UNCHANGED << huntVars, probe, clues, numGroups, committed, returnValue, thrown >>

\* The loop condition off by one: attempts <= maxAttempts
InAttemptLoopOneMore ==
    /\ pc = "loop"
    /\ groupNum <= numGroups
    /\ attempts <= maxAttempts

\* while (sequence === null && attempts < maxAttempts), for a group of the loop
InAttemptLoop ==
    /\ pc = "loop"
    /\ groupNum <= numGroups
    /\ attempts < maxAttempts

\* The randomizable parts of the explored pools.
RandomizablePools == { SubSeq(c, 1, Len(c) - 1) : c \in { p \in CluePools : Len(p) >= 2 } }

\* createAlternatingSequence(rc) for each explored rc, worked out once: the
\* orderings it can return, none when it returns null.
alternatingTable ==
    [rc \in RandomizablePools |->
        IF alternatingIsNull(rc) THEN {} ELSE createAlternatingSequence(rc)]

\* What shuffleArray can make of an array of n entries, worked out once.
shuffleTable ==
    [n \in 1..MaxClues |-> shuffleArray([i \in 1..n |-> i])]

\* let shuffledClues = createAlternatingSequence(randomizableClues)
alternatingCandidates == alternatingTable[randomizableClues]

\* shuffledClues = [...randomizableClues]; shuffleArray(shuffledClues)
shuffledCandidates == shuffleTable[Len(randomizableClues)]

\* The plain shuffle drawn in every attempt, whatever the builder returned.
FallsBackAlways == TRUE

\* The alternating candidate is null or violates the constraints, so the
\* plain shuffle is drawn.
FallsBack ==
    \/ alternatingIsNull(randomizableClues)
    \/ { alt \in alternatingCandidates :
             violatesConstraints(CluesOf(alt), usedFirstClues, usedConsecutivePairs) } /= {}

\* Line 185 reached without either validator call having been made.
acceptsUnchecked(order, usedFirst, usedPairs) == TRUE

\* Whether an ordering that reached line 185 may be committed.
accepts(order, usedFirst, usedPairs) ==
    ~violatesConstraints(CluesOf(order), usedFirst, usedPairs)

\* Lines 185-228: build the step list, record the constraints, store the
\* sequence and move to the next group (whose attempts start at 0).
Commit(order) ==
    /\ usedFirstClues' = recordFirstClue(CluesOf(order), usedFirstClues)
    /\ usedConsecutivePairs' = recordPairs(CluesOf(order), usedConsecutivePairs)
    /\ allSequences' = allSequences @@
                          (groupNum :> candidateSequence(CluesOf(order), finalClue, groupNum))
    /\ committed' = committed @@ (groupNum :> order)
    /\ groupNum' = groupNum + 1
    /\ attempts' = 0
    /\ UNCHANGED << huntVars, probe, clues, numGroups, pc, returnValue, thrown >>

\* An attempt whose alternating candidate passes the validator.
AttemptAlternating ==
    /\ InAttemptLoop
    /\ \E alt \in alternatingCandidates :
           /\ accepts(alt, usedFirstClues, usedConsecutivePairs)
           /\ Commit(alt)

\* An attempt that falls back to the plain shuffle, which passes.
AttemptShuffled ==
    /\ InAttemptLoop
    /\ FallsBack
    /\ \E shuffled \in shuffledCandidates :
           /\ accepts(shuffled, usedFirstClues, usedConsecutivePairs)
           /\ Commit(shuffled)

\* An attempt whose two candidates are both rejected: continue.
AttemptAbandoned ==
    /\ InAttemptLoop
    /\ FallsBack
    /\ { shuffled \in shuffledCandidates :
             violatesConstraints(CluesOf(shuffled), usedFirstClues, usedConsecutivePairs) } /= {}
    /\ attempts' = attempts + 1
    /\ UNCHANGED << huntVars, probe, clues, numGroups, pc, groupNum, usedFirstClues,
                    usedConsecutivePairs, allSequences, committed, returnValue, thrown >>

\* `Could not generate valid sequence for Group ${groupNum} after ...`
exhaustedMessage(g, n) ==
    "Could not generate valid sequence for Group " \o ToString(g) \o " after "
        \o ToString(n) \o " attempts. Try using more clues or fewer groups."

\* Exhaustion that hands back the groups built so far instead of throwing.
ReturnPartial ==
    /\ pc = "loop"
    /\ groupNum <= numGroups
    /\ attempts >= maxAttempts
    /\ pc' = "returned"
    /\ returnValue' = allSequences
    /\ UNCHANGED << huntVars, probe, clues, numGroups, groupNum, attempts, usedFirstClues,
                    usedConsecutivePairs, allSequences, committed, thrown >>

\* if (sequence === null) throw ...
ThrowExhausted ==
    /\ pc = "loop"
    /\ groupNum <= numGroups
    /\ attempts >= maxAttempts
    /\ pc' = "thrown"
    /\ thrown' = exhaustedMessage(groupNum, maxAttempts)
    /\ UNCHANGED << huntVars, probe, clues, numGroups, groupNum, attempts, usedFirstClues,
                    usedConsecutivePairs, allSequences, committed, returnValue >>

\* return allSequences
Return ==
    /\ pc = "loop"
    /\ groupNum > numGroups
    /\ pc' = "returned"
    /\ returnValue' = allSequences
    /\ UNCHANGED << huntVars, probe, clues, numGroups, groupNum, attempts, usedFirstClues,
                    usedConsecutivePairs, allSequences, committed, thrown >>

Next ==
    \/ ThrowInsufficient
    \/ Enter
    \/ AttemptAlternating
    \/ AttemptShuffled
    \/ AttemptAbandoned
    \/ ThrowExhausted
    \/ Return

Spec == Init /\ [][Next]_vars

(***************************************************************************)
(* The helpers called on their own, on orderings of the pool and on the    *)
(* ledgers a first commit can leave behind.                                *)
(***************************************************************************)
\* The empty ledger and the ledger after any one ordering was recorded.
Ledgers ==
    { [usedFirst |-> {}, usedPairs |-> {}] } \cup
    { [usedFirst |-> recordFirstClue(CluesOf(order), {}),
       usedPairs |-> recordPairs(CluesOf(order), {})] : order \in shuffledCandidates }

ProbeInit ==
    /\ Init
    /\ numGroups = 1

\* createAlternatingSequence(randomizableClues)
ProbeCreateAlternatingSequence ==
    /\ pc = "entry"
    /\ Len(clues) >= 2
    /\ \/ /\ alternatingIsNull(randomizableClues)
          /\ probe' = [fn |-> "createAlternatingSequence", isNull |-> TRUE, result |-> <<>>]
       \/ \E alt \in alternatingCandidates :
              probe' = [fn |-> "createAlternatingSequence", isNull |-> FALSE,
                        result |-> CluesOf(alt)]
    /\ UNCHANGED << huntVars, clues, numGroups, pc, groupNum, attempts, usedFirstClues,
                    usedConsecutivePairs, allSequences, committed, returnValue, thrown >>

\* violatesConstraints(shuffledClues, usedFirstClues, usedConsecutivePairs)
ProbeViolatesConstraints ==
    /\ pc = "entry"
    /\ Len(clues) >= 2
    /\ \E order \in shuffledCandidates, ledger \in Ledgers :
           probe' = [fn |-> "violatesConstraints",
                     shuffledClues |-> CluesOf(order),
                     usedFirst |-> ledger.usedFirst,
                     usedPairs |-> ledger.usedPairs,
                     result |-> violatesConstraints(CluesOf(order),
                                                    ledger.usedFirst, ledger.usedPairs)]
    /\ UNCHANGED << huntVars, clues, numGroups, pc, groupNum, attempts, usedFirstClues,
                    usedConsecutivePairs, allSequences, committed, returnValue, thrown >>

\* followsAlternatingTypes(shuffledClues)
ProbeFollowsAlternatingTypes ==
    /\ pc = "entry"
    /\ Len(clues) >= 2
    /\ \E order \in shuffledCandidates :
           probe' = [fn |-> "followsAlternatingTypes",
                     shuffledClues |-> CluesOf(order),
                     result |-> followsAlternatingTypes(CluesOf(order))]
    /\ UNCHANGED << huntVars, clues, numGroups, pc, groupNum, attempts, usedFirstClues,
                    usedConsecutivePairs, allSequences, committed, returnValue, thrown >>

ProbeNext ==
    \/ ProbeCreateAlternatingSequence
    \/ ProbeViolatesConstraints
    \/ ProbeFollowsAlternatingTypes

ProbeSpec == ProbeInit /\ [][ProbeNext]_vars

(***************************************************************************)
(* generateScavengerHunt() from the clean-up of the previous hunt on: the  *)
(* number of groups has been accepted and the clues have been read.  The   *)
(* spreadsheet is modelled by the names of its sheets.                     *)
(***************************************************************************)
MaxHuntClues == 3

\* The pools read from the "Clues" sheet.  The empty pool arrives here when
\* the offer of sample clues is accepted and their writing is declined.
HuntPools == { c \in CluePools : Len(c) <= MaxHuntClues }

\* Sheets that may exist beside "Clues" when the hunt is generated.
OtherSheetNames == { "Master", "Group 1", "Group 12", "Group A" }

\* `Group ${groupNum}`
GroupSheetName(n) == "Group " \o ToString(n)

\* sheetName.match(/^Group \d+$/), over numbers of one or two digits
matchesGroupSheet(sheetName) ==
    sheetName \in { GroupSheetName(n) : n \in 0..99 }

\* A clean-up that deletes the Master sheet and leaves the Group sheets.
cleanupMasterOnly(sheetNames) ==
    { sheetName \in sheetNames : ~(sheetName = "Master") }

\* The names left by the loop over spreadsheet.getSheets()
cleanupExistingHuntSheets(sheetNames) ==
    { sheetName \in sheetNames :
          ~(sheetName = "Master" \/ matchesGroupSheet(sheetName)) }

\* spreadsheet.insertSheet(sheetName)
insertSheet(sheetNames, sheetName) == sheetNames \cup { sheetName }

\* ui.alert('Error', `Failed to generate hunt: ${error.message}`, ...)
errorAlert(message) ==
    [title |-> "Error", message |-> "Failed to generate hunt: " \o message]

\* ui.alert(`Success!`, `Scavenger hunt generated for ${numGroups} groups!...`)
\* (the message is kept up to its first line)
successAlert(n) ==
    [title   |-> "Success!",
     message |-> "Scavenger hunt generated for " \o ToString(n) \o " groups!"]

HuntInit ==
    /\ clues \in HuntPools
    /\ numGroups \in 1..MaxGroups
    /\ pc = "entry"
    /\ groupNum = 1
    /\ attempts = 0
    /\ usedFirstClues = {}
    /\ usedConsecutivePairs = {}
    /\ allSequences = EmptyMap
    /\ committed = EmptyMap
    /\ returnValue = EmptyMap
    /\ thrown = ""
    /\ probe = NoProbe
    /\ huntPc = "cleanup"
    /\ sheets \in { {"Clues"} \cup others : others \in SUBSET OtherSheetNames }
    /\ alerts = << >>
    /\ sheetNum = 1

\* cleanupExistingHuntSheets(spreadsheet)
CleanupExistingHuntSheets ==
    /\ huntPc = "cleanup"
    /\ sheets' = cleanupExistingHuntSheets(sheets)
    /\ huntPc' = "generate"
    /\ UNCHANGED << alerts, sheetNum, probe, clues, numGroups, pc, groupNum,
                    attempts, usedFirstClues, usedConsecutivePairs,
                    allSequences, committed, returnValue, thrown >>

\* const allSequences = generateHuntSequences(clues, numGroups): its steps
GenerateHuntSequences ==
    /\ huntPc = "generate"
    /\ Next

\* createMasterSheet(spreadsheet, allSequences), once the call has returned
CreateMasterSheet ==
    /\ huntPc = "generate"
    /\ pc = "returned"
    /\ sheets' = insertSheet(sheets, "Master")
    /\ huntPc' = "groups"
    /\ sheetNum' = 1
    /\ UNCHANGED << alerts, probe, clues, numGroups, pc, groupNum,
                    attempts, usedFirstClues, usedConsecutivePairs,
                    allSequences, committed, returnValue, thrown >>

\* createGroupSheet(spreadsheet, groupNum, allSequences[groupNum])
CreateGroupSheet ==
    /\ huntPc = "groups"
    /\ sheetNum <= numGroups
    /\ sheets' = insertSheet(sheets, GroupSheetName(sheetNum))
    /\ sheetNum' = sheetNum + 1
    /\ UNCHANGED << huntPc, alerts, probe, clues, numGroups, pc, groupNum,
                    attempts, usedFirstClues, usedConsecutivePairs,
                    allSequences, committed, returnValue, thrown >>

\* The alert after the loop over the groups.
AlertSuccess ==
    /\ huntPc = "groups"
    /\ sheetNum > numGroups
    /\ alerts' = Append(alerts, successAlert(numGroups))
    /\ huntPc' = "done"
    /\ UNCHANGED << sheets, sheetNum, probe, clues, numGroups, pc, groupNum,
                    attempts, usedFirstClues, usedConsecutivePairs,
                    allSequences, committed, returnValue, thrown >>

\* catch (error) { ui.alert('Error', ...) }
CatchError ==
    /\ huntPc = "generate"
    /\ pc = "thrown"
    /\ alerts' = Append(alerts, errorAlert(thrown))
    /\ huntPc' = "done"
    /\ UNCHANGED << sheets, sheetNum, probe, clues, numGroups, pc, groupNum,
                    attempts, usedFirstClues, usedConsecutivePairs,
                    allSequences, committed, returnValue, thrown >>

HuntNext ==
    \/ CleanupExistingHuntSheets
    \/ GenerateHuntSequences
    \/ CreateMasterSheet
    \/ CreateGroupSheet
    \/ AlertSuccess
    \/ CatchError

HuntSpec == HuntInit /\ [][HuntNext]_vars

TypeOK ==
    /\ pc \in {"entry", "loop", "returned", "thrown"}
    /\ groupNum \in 1..(numGroups + 1)
    /\ attempts \in 0..maxAttempts
    /\ DOMAIN allSequences = DOMAIN committed

(***************************************************************************)
(* Properties of the result                                                *)
(***************************************************************************)
Returned == pc = "returned"

\* The question of step i of the sequence returned for group g.
QuestionAt(g, i) == returnValue[g][i].question

\* The number of randomizable steps of the sequence returned for group g.
RandomizableLen(g) == Len(returnValue[g]) - 1

\* C1: in a returned result the first steps of two different groups never
\* ask the same question.
C1_DistinctFirstQuestions ==
    Returned =>
        \A g1, g2 \in DOMAIN returnValue :
            g1 /= g2 => QuestionAt(g1, 1) /= QuestionAt(g2, 1)

C1_Witness ==
    /\ Returned
    /\ numGroups >= 2
    /\ DOMAIN returnValue = 1..numGroups

\* C2: in a returned result no ordered pair of adjacent questions inside the
\* randomizable portion of one group (both steps before the final step) is
\* an adjacent pair inside the randomizable portion of another group.
C2_NoSharedRandomizablePair ==
    Returned =>
        \A g1, g2 \in DOMAIN returnValue :
            g1 /= g2 =>
                \A i \in 1..(RandomizableLen(g1) - 1), j \in 1..(RandomizableLen(g2) - 1) :
                    << QuestionAt(g1, i), QuestionAt(g1, i + 1) >>
                        /= << QuestionAt(g2, j), QuestionAt(g2, j + 1) >>

C2_Witness ==
    /\ Returned
    /\ numGroups >= 2
    /\ Len(randomizableClues) >= 3
    /\ \A g \in 1..numGroups : RandomizableLen(g) = Len(randomizableClues)

\* C3: in a returned result no ordered pair of consecutive questions,
\* counted over the complete sequences (the pair made of the last
\* randomizable step and the final step included), appears in the sequences
\* of two different groups.
C3_NoSharedPairInCompleteSequences ==
    Returned =>
        \A g1, g2 \in DOMAIN returnValue :
            g1 /= g2 =>
                \A i \in 1..(Len(returnValue[g1]) - 1), j \in 1..(Len(returnValue[g2]) - 1) :
                    << QuestionAt(g1, i), QuestionAt(g1, i + 1) >>
                        /= << QuestionAt(g2, j), QuestionAt(g2, j + 1) >>

\* C4: in a returned result every sequence has one step per input clue
\* (the randomizable clues plus one) and its last step asks the question of
\* the last clue of the pool.
C4_LengthAndFinalClue ==
    Returned =>
        \A g \in DOMAIN returnValue :
            /\ Len(returnValue[g]) = Len(randomizableClues) + 1
            /\ Len(returnValue[g]) = Len(clues)
            /\ returnValue[g][Len(returnValue[g])].question = clues[Len(clues)].question

C4_Witness ==
    /\ Returned
    /\ numGroups >= 2
    /\ Len(clues) = MaxClues
    /\ DOMAIN returnValue = 1..numGroups

\* The clues of the pool an ordering visits, as a bag of pool positions.
PositionBag(order) == [p \in { order[i] : i \in 1..Len(order) } |->
                          Cardinality({ i \in 1..Len(order) : order[i] = p })]

\* C5: in a returned result the ordering behind every sequence visits every
\* randomizable clue exactly once, the first steps ask the questions of the
\* clues in that order, and the final clue comes last; this holds for an
\* ordering made by createAlternatingSequence as for a plain shuffle.
C5_PermutationOfPool ==
    Returned =>
        \A g \in DOMAIN returnValue :
            /\ Len(committed[g]) = Len(randomizableClues)
            /\ PositionBag(committed[g]) = [p \in 1..Len(randomizableClues) |-> 1]
            /\ RandomizableLen(g) = Len(randomizableClues)
            /\ \A i \in 1..Len(committed[g]) :
                   QuestionAt(g, i) = randomizableClues[committed[g][i]].question
            /\ QuestionAt(g, Len(returnValue[g])) = finalClue.question

\* A result whose group 1 got an ordering only the builder produces here
\* (an untyped clue between typed ones) and a pool that also has orderings
\* only the plain shuffle produces.
C5_Witness ==
    /\ Returned
    /\ Len(randomizableClues) >= 3
    /\ \E g \in DOMAIN returnValue :
           /\ committed[g] \in alternatingCandidates
           /\ \E i \in 2..Len(committed[g]) : isOther(randomizableClues[committed[g][i]])
    /\ \E g \in DOMAIN returnValue : committed[g] \notin alternatingCandidates

\* The step numbers run 1..len and every step but the last is labelled with
\* the group, the number of the next step and the question of the next step.
StepsChained(g) ==
    LET seq == returnValue[g]
    IN  /\ \A i \in 1..Len(seq) : seq[i].clueNumber = i
        /\ \A i \in 1..(Len(seq) - 1) :
               seq[i].nextClue = "Group " \o ToString(g) \o " Clue " \o ToString(i + 1)
                                     \o ". " \o seq[i + 1].question

C7_ExhaustionAborts ==
    /\ [][ (pc = "loop" /\ groupNum <= numGroups /\ attempts = 100) =>
               /\ pc' = "thrown"
               /\ thrown' = "Could not generate valid sequence for Group "
                               \o ToString(groupNum)
                               \o " after 100 attempts. Try using more clues or fewer groups."
               /\ groupNum' = groupNum
               /\ allSequences' = allSequences ]_vars
    /\ [][ pc /= "thrown" /\ pc /= "returned" ]_vars
    /\ [](pc = "thrown" =>
               /\ returnValue = EmptyMap
               /\ DOMAIN allSequences = 1..(groupNum - 1)
               /\ DOMAIN committed = 1..(groupNum - 1))

\* Group 2 of 3 exhausted its attempts after group 1 had been committed.
C7_Witness ==
    /\ pc = "thrown"
    /\ attempts = 100
    /\ groupNum = 2
    /\ numGroups = 3
    /\ DOMAIN allSequences = {1}

\* C8: with fewer than 2 clues the run is either not started or has thrown
\* the insufficient-clues error, and no attempt was made: the attempt
\* counter is 0, the ledger is empty and no sequence was built.
C8_InsufficientClues ==
    Len(clues) < 2 =>
        /\ pc \in {"entry", "thrown"}
        /\ pc = "thrown" => thrown = "Need at least 2 clues to generate a hunt"
        /\ attempts = 0
        /\ groupNum = 1
        /\ usedFirstClues = {}
        /\ usedConsecutivePairs = {}
        /\ allSequences = EmptyMap
        /\ committed = EmptyMap
        /\ returnValue = EmptyMap

C8_Witness ==
    /\ Len(clues) = 1
    /\ pc = "thrown"
    /\ thrown = "Need at least 2 clues to generate a hunt"

\* C9: a returned result has an entry for exactly the groups 1..N, and
\* every step that stores a sequence stores it for the current group, built
\* from an ordering the validator does not reject against the ledger as it
\* is before that step.
C9_NoGroupDroppedAllValidated ==
    /\ [](Returned => DOMAIN returnValue = 1..numGroups)
    /\ [][ allSequences' /= allSequences =>
               /\ DOMAIN allSequences' = DOMAIN allSequences \cup {groupNum}
               /\ groupNum \notin DOMAIN allSequences
               /\ \A g \in DOMAIN allSequences : allSequences'[g] = allSequences[g]
               /\ ~violatesConstraints(CluesOf(committed'[groupNum]),
                                       usedFirstClues, usedConsecutivePairs)
               /\ \A i \in 1..Len(committed'[groupNum]) :
                      allSequences'[groupNum][i].question
                          = randomizableClues[committed'[groupNum][i]].question ]_vars

\* A result for 2 groups over 3 randomizable clues, the second validated
\* against the first clue and the pairs the first one recorded.
C9_Witness ==
    /\ Returned
    /\ numGroups = 2
    /\ DOMAIN returnValue = {1, 2}
    /\ Cardinality(usedFirstClues) = 2
    /\ Len(randomizableClues) = 3
    /\ Cardinality(usedConsecutivePairs) = 4

\* C10: when some randomizable clue is tagged Place, the first step of every
\* group of a returned result is a clue tagged Place or an untyped clue,
\* never a clue tagged Person.
C10_FirstIsPlaceOrUntyped ==
    (Returned /\ \E k \in 1..Len(randomizableClues) : isPlace(randomizableClues[k])) =>
        \A g \in DOMAIN returnValue :
            LET first == randomizableClues[committed[g][1]]
            IN  /\ QuestionAt(g, 1) = first.question
                /\ isPlace(first) \/ isOther(first)
                /\ ~isPerson(first)

\* A pool with Place and Person clues, one group opening on a Place and
\* another on an untyped clue.
C10_Witness ==
    /\ Returned
    /\ \E k \in 1..Len(randomizableClues) : isPlace(randomizableClues[k])
    /\ \E k \in 1..Len(randomizableClues) : isPerson(randomizableClues[k])
    /\ \E g \in DOMAIN returnValue : isPlace(randomizableClues[committed[g][1]])
    /\ \E g \in DOMAIN returnValue : isOther(randomizableClues[committed[g][1]])

\* The only sequence a pool of two clues can give group 1.
TwoStepSequence ==
    << [clueNumber |-> 1,
        question   |-> clues[1].question,
        location   |-> "Hide this at/with: " \o clues[1].answer,
        nextClue   |-> "Group 1 Clue 2. " \o clues[2].question],
       [clueNumber |-> 2,
        question   |-> clues[2].question,
        location   |-> "Hide this at/with: " \o clues[2].answer,
        nextClue   |-> "3. The End"] >>

\* The category of the clue is 'place' in any spelling, or it has none.
PlaceOrNoCategory(c) ==
    c.clueType \in {Null, ""} \/ c.clueType \in {"place", "Place", "PLACE"}

C12_OnePlaceThreeGroups ==
    (Len(clues) = 2 /\ isPlace(clues[1]) /\ numGroups = 3) =>
        /\ pc /= "returned"
        /\ groupNum <= 2
        /\ groupNum = 1 => attempts = 0
        /\ DOMAIN allSequences \subseteq {1}
        /\ pc = "thrown" =>
               /\ groupNum = 2
               /\ attempts = 100
               /\ DOMAIN allSequences = {1}
               /\ thrown = "Could not generate valid sequence for Group 2 after 100 "
                               \o "attempts. Try using more clues or fewer groups."

C12_Witness ==
    /\ Len(clues) = 2
    /\ isPlace(clues[1])
    /\ numGroups = 3
    /\ pc = "thrown"
    /\ groupNum = 2

\* The questions of the steps of the sequence returned for group g.
QuestionsOf(g) == [i \in 1..Len(returnValue[g]) |-> QuestionAt(g, i)]

Budget == 100 * (numGroups + 1 - groupNum) - attempts

\* A measure of the steps left.
Rank ==
    CASE pc = "entry" -> 100 * numGroups + 2
      [] pc = "loop"  -> Budget + 1
      [] OTHER        -> 0

\* A step that ends an attempt in a commit.
IsCommitStep ==
    /\ groupNum' = groupNum + 1
    /\ attempts' = 0
    /\ DOMAIN allSequences' = DOMAIN allSequences \cup {groupNum}

\* A step that ends an attempt by abandoning it.
IsAbandonStep ==
    /\ attempts' = attempts + 1
    /\ UNCHANGED << groupNum, allSequences, committed,
                    usedFirstClues, usedConsecutivePairs, pc >>

CommittedPairKeys(order) ==
    { randomizableClues[order[i]].question \o "|" \o randomizableClues[order[i + 1]].question :
          i \in 1..(Len(order) - 1) }

\* C17: the ledger changes only in a commit.  A step that stores no
\* sequence leaves both sets as they are; a step that stores one adds the
\* first question of the committed ordering to usedFirstClues and the keys
\* of all its adjacent pairs to usedConsecutivePairs, and nothing else;
\* nothing is ever removed, and usedFirstClues has one element per
\* committed group.
C17_LedgerWrittenOnCommit ==
    /\ [][ /\ allSequences' = allSequences =>
                 UNCHANGED << usedFirstClues, usedConsecutivePairs >>
           /\ allSequences' /= allSequences =>
                 /\ usedFirstClues' = usedFirstClues
                        \cup { randomizableClues[committed'[groupNum][1]].question }
                 /\ usedConsecutivePairs' = usedConsecutivePairs
                        \cup CommittedPairKeys(committed'[groupNum])
           /\ usedFirstClues \subseteq usedFirstClues'
           /\ usedConsecutivePairs \subseteq usedConsecutivePairs' ]_vars
    /\ [](Cardinality(usedFirstClues) = Cardinality(DOMAIN allSequences))

\* Two groups committed over 3 randomizable clues: 2 first questions, 4 pairs.
C17_Witness ==
    /\ Cardinality(DOMAIN allSequences) = 2
    /\ Cardinality(usedFirstClues) = 2
    /\ Cardinality(usedConsecutivePairs) = 4

\* Some ordering the builder can return is rejected against the ledger, or
\* the builder returns null.
BuilderCanFail ==
    \/ alternatingIsNull(randomizableClues)
    \/ \E alt \in alternatingCandidates :
           violatesConstraints(CluesOf(alt), usedFirstClues, usedConsecutivePairs)

\* Some plain shuffle is rejected against the ledger.
ShuffleCanFail ==
    \E shuffled \in shuffledCandidates :
        violatesConstraints(CluesOf(shuffled), usedFirstClues, usedConsecutivePairs)

\* C19: an ordering that only the plain shuffle can produce is committed
\* only when the builder returned null or a candidate that fails the
\* validator, so a builder candidate that passes is the one committed; the
\* committed ordering passes the validator; and an attempt is abandoned only
\* when the builder's candidate (if any) and the shuffled one both fail,
\* which, whenever both can fail, is a step the run can take.
C19_FallbackOrder ==
    /\ [][ IsCommitStep =>
               /\ ~violatesConstraints(CluesOf(committed'[groupNum]),
                                       usedFirstClues, usedConsecutivePairs)
               /\ (\/ alternatingIsNull(randomizableClues)
                   \/ committed'[groupNum] \notin alternatingCandidates)
                      => BuilderCanFail ]_vars
    /\ [][ IsAbandonStep => BuilderCanFail /\ ShuffleCanFail ]_vars
    /\ []((pc = "loop" /\ groupNum <= numGroups /\ attempts < 100
              /\ BuilderCanFail /\ ShuffleCanFail) => ENABLED AttemptAbandoned)

\* Group 1 got an ordering only the plain shuffle produces, from a pool whose
\* builder does not return null.
C19_Witness ==
    /\ Len(clues) >= 2
    /\ 1 \in DOMAIN committed
    /\ ~alternatingIsNull(randomizableClues)
    /\ committed[1] \notin alternatingCandidates
    /\ attempts > 0

\* C20: when the randomizable pool has at least 3 clues, all tagged Place,
\* no ordering of it passes the validator even against the empty ledger, no
\* group is ever committed and the only end of the run is the error naming
\* group 1.
C20_AllPlaceUnsatisfiable ==
    (/\ Len(clues) >= 4
     /\ \A k \in 1..(Len(clues) - 1) : clues[k].clueType \in {"Place", "place"}) =>
        /\ pc /= "returned"
        /\ groupNum = 1
        /\ allSequences = EmptyMap
        /\ usedFirstClues = {}
        /\ \A shuffled \in shuffledCandidates :
               violatesConstraints(CluesOf(shuffled), {}, {})
        /\ pc = "thrown" =>
               thrown = "Could not generate valid sequence for Group 1 after 100 "
                            \o "attempts. Try using more clues or fewer groups."

C20_Witness ==
    /\ Len(clues) >= 4
    /\ \A k \in 1..(Len(clues) - 1) : clues[k].clueType \in {"Place", "place"}
    /\ pc = "thrown"
    /\ attempts = 100

\* The category is 'person' or 'place' in any spelling.
TaggedPerson(c) == c.clueType \in {"person", "Person", "PERSON"}

TaggedPlace(c) == c.clueType \in {"place", "Place", "PLACE"}

\* C14: every ordering createAlternatingSequence returns (when it does not
\* return null) has a clue tagged Place at position 0.
C14_BuilderStartsWithPlace ==
    (probe.fn = "createAlternatingSequence" /\ ~probe.isNull) =>
        TaggedPlace(probe.result[1])

\* The number of positions whose two entries carry the same of the two
\* categories.
SameCategoryNeighbours(seq) ==
    Cardinality({ i \in 1..(Len(seq) - 1) :
                      \/ TaggedPerson(seq[i]) /\ TaggedPerson(seq[i + 1])
                      \/ TaggedPlace(seq[i]) /\ TaggedPlace(seq[i + 1]) })

\* The number of entries that carry one of the two categories.
TaggedCount(seq) ==
    Cardinality({ i \in 1..Len(seq) : TaggedPerson(seq[i]) \/ TaggedPlace(seq[i]) })

\* The soft-alternation check as C18 words it.
SoftAlternationRejects(seq) ==
    /\ TaggedCount(seq) >= 2
    /\ SameCategoryNeighbours(seq) > Len(seq) \div 2

\* C15: a candidate whose first entry carries a category that is neither
\* 'person' nor 'place' is rejected by violatesConstraints only for what
\* would also reject it with no category on that entry: its first question
\* is used, one of its pairs is used, or the soft-alternation check fails.
C15_OtherCategoryFirstIsUntyped ==
    (/\ probe.fn = "violatesConstraints"
     /\ probe.shuffledClues[1].clueType \notin {Null, ""}
     /\ ~TaggedPerson(probe.shuffledClues[1])
     /\ ~TaggedPlace(probe.shuffledClues[1])
     /\ probe.result) =>
        \/ probe.shuffledClues[1].question \in probe.usedFirst
        \/ \E i \in 1..(Len(probe.shuffledClues) - 1) :
               (probe.shuffledClues[i].question \o "|" \o probe.shuffledClues[i + 1].question)
                   \in probe.usedPairs
        \/ SoftAlternationRejects(probe.shuffledClues)

\* C18: followsAlternatingTypes rejects a candidate exactly when it has at
\* least 2 entries tagged Person or Place and more than floor(len / 2)
\* positions whose two entries carry the same of these categories, len
\* counting the untyped entries too.
C18_SoftAlternation ==
    probe.fn = "followsAlternatingTypes" =>
        (probe.result = FALSE <=> SoftAlternationRejects(probe.shuffledClues))

\* A rejected candidate: three clues of one category, 2 > floor(3 / 2).
C18_Witness ==
    /\ probe.fn = "followsAlternatingTypes"
    /\ probe.result = FALSE
    /\ Len(probe.shuffledClues) = 3

\* The distinct question texts of the randomizable clues whose category is
\* absent or 'place' in any spelling.
OpeningQuestions ==
    { clues[k].question :
          k \in { j \in 1..(Len(clues) - 1) :
                      clues[j].clueType \in {Null, "", "place", "Place", "PLACE"} } }

\* The groups committed so far.
CommittedGroups == Cardinality(DOMAIN allSequences)

\* C21 as stated: the number of committed groups never exceeds the number
\* of opening questions, and a run with more groups than that never returns
\* and, when it ends, ends in the error of an exhausted group.
C21_Original ==
    /\ CommittedGroups <= Cardinality(OpeningQuestions)
    /\ numGroups > Cardinality(OpeningQuestions) =>
           /\ pc /= "returned"
           /\ pc = "thrown" =>
                  thrown = "Could not generate valid sequence for Group "
                               \o ToString(groupNum)
                               \o " after 100 attempts. Try using more clues or fewer groups."

\* C21 amended: the number of committed groups never exceeds the number of
\* opening questions, and a run with more groups than that never returns;
\* when it ends, it ends in the error of an exhausted group if the pool has
\* at least 2 clues and in the insufficient-clues error if it has fewer.
C21_CommittedGroupsBounded ==
    /\ CommittedGroups <= Cardinality(OpeningQuestions)
    /\ numGroups > Cardinality(OpeningQuestions) =>
           /\ pc /= "returned"
           /\ pc = "thrown" =>
                  IF Len(clues) < 2
                  THEN thrown = "Need at least 2 clues to generate a hunt"
                  ELSE /\ groupNum <= Cardinality(OpeningQuestions) + 1
                       /\ thrown = "Could not generate valid sequence for Group "
                                       \o ToString(groupNum)
                                       \o " after 100 attempts. Try using more clues or fewer groups."

\* A run of 3 groups over a pool with 2 opening questions that committed 2
\* groups before group 3 exhausted its attempts.
C21_Witness ==
    /\ pc = "thrown"
    /\ numGroups = 3
    /\ Cardinality(OpeningQuestions) = 2
    /\ CommittedGroups = 2
    /\ groupNum = 3

\* Neither a sheet named 'Master' nor a sheet named 'Group <n>' exists.
NoHuntSheet ==
    /\ "Master" \notin sheets
    /\ \A n \in 0..99 : ("Group " \o ToString(n)) \notin sheets

\* generateScavengerHunt has ended after generateHuntSequences threw.
HuntFailed == huntPc = "done" /\ pc = "thrown"

\* C22: in generateScavengerHunt the 'Master' and 'Group <n>' sheets are
\* deleted before generateHuntSequences is called, and sheets are created
\* only after it has returned; so when generation fails with the
\* insufficient-clues error or with the error of an exhausted group, the
\* spreadsheet ends without a Master and without a Group sheet, and the one
\* alert shown is the error alert carrying the message of the failure.
C22_FailedHuntLeavesNoSheets ==
    /\ huntPc = "cleanup" => pc = "entry"
    /\ huntPc = "generate" => NoHuntSheet
    /\ (huntPc /= "cleanup" /\ ~NoHuntSheet) => pc = "returned"
    /\ pc = "thrown" => huntPc \in {"generate", "done"}
    /\ HuntFailed =>
           /\ NoHuntSheet
           /\ \/ thrown = "Need at least 2 clues to generate a hunt"
              \/ \E g \in 1..numGroups :
                     thrown = "Could not generate valid sequence for Group "
                                  \o ToString(g)
                                  \o " after 100 attempts. Try using more clues or fewer groups."
           /\ alerts = << [title   |-> "Error",
                           message |-> "Failed to generate hunt: " \o thrown] >>

\* A hunt of 2 groups that failed on group 2: of the sheets only "Clues" and
\* the sheet "Group A", which is no hunt sheet, are left, and the error alert
\* has been shown.
C22_Witness ==
    /\ HuntFailed
    /\ numGroups = 2
    /\ groupNum = 2
    /\ attempts = maxAttempts
    /\ sheets = {"Clues", "Group A"}
    /\ Len(alerts) = 1
    /\ alerts[1].title = "Error"

====
